---- MODULE Spec2Model ----
(***************************************************************************)
(* Model of onc_dts.monitor_dts: the RawDataFetcher polling stream and the *)
(* remote fetch it is built on.                                            *)
(*                                                                         *)
(* Timestamps are integers 0..MaxTime (the source compares nothing itself; *)
(* ISO strings order like integers).  A rawData string is a sequence of    *)
(* tokens, so that "starts with the prefix" and "is valid JSON" are        *)
(* computed, not assumed.  The stream is stepped at its suspension points: *)
(* one action per __next__ call and one per remote fetch inside            *)
(* _fetch_next, because a single __next__ call need not terminate.         *)
(***************************************************************************)
EXTENDS Integers, Sequences, FiniteSets, TLC

\* ---- bounds ----------------------------------------------------------
MaxTime == 1
MaxRecs == 2
MaxDepth == 2

\* ---- Python values ---------------------------------------------------
None == -1
Unset == -2
RowLimitDefault == 100
ProbeRowLimit == 1

Times == 0..MaxTime

Min(a, b) == IF a < b THEN a ELSE b

\* ---- rawData strings as token sequences ------------------------------
TokOpen == "{\"Cmd\":"
TokGetData == "\"getData\","
TokGetTime == "\"getTime\","
TokResp == "\"Resp\":{}}"
TokCut == "\"Resp\":{"

\* '{"Cmd":"getData",'
CommandFramePrefix == <<TokOpen, TokGetData>>

\* a well-formed frame, a truncated frame, and another command's reply
FrameRaw == <<TokOpen, TokGetData, TokResp>>
TruncatedRaw == <<TokOpen, TokGetData, TokCut>>
OtherRaw == <<TokOpen, TokGetTime, TokResp>>
RawDatas == {FrameRaw, TruncatedRaw, OtherRaw}

\* str.startswith
startswith(s, p) == Len(s) >= Len(p) /\ SubSeq(s, 1, Len(p)) = p

\* the frame test of the scan loop, and a shorter-prefix variant of it
IsCommandFrameAnyCmd(raw) == startswith(raw, <<TokOpen>>)
IsCommandFrame(raw) == startswith(raw, CommandFramePrefix)

\* json.loads: succeeds on `{"Cmd":<name>,"Resp":{}}` only
JsonValid(raw) ==
  /\ Len(raw) = 3
  /\ raw[1] = TokOpen
  /\ raw[2] \in {TokGetData, TokGetTime}
  /\ raw[3] = TokResp
JsonLoads(raw) ==
  [Cmd |-> IF raw[2] = TokGetData THEN "getData" ELSE "getTime", Resp |-> "{}"]

\* ---- the remote service ----------------------------------------------
Items == [sampleTime : Times, rawData : RawDatas]

\* ascending record sequences of at most n records, none earlier than c
RECURSIVE DataFrom(_, _)
DataFrom(c, n) ==
  IF n = 0 THEN {<<>>}
  ELSE {<<>>} \cup
       UNION {{<<it>> \o rest : rest \in DataFrom(it.sampleTime, n - 1)} :
              it \in {i \in Items : i.sampleTime >= c}}
AllData == DataFrom(0, MaxRecs)

\* `next` left out of the page, or null
AbsentShapes == {"missing", "null"}
MalformedShapes ==
  {"missing", "null", "empty", "no_dateFrom", "non_mapping", "null_dateFrom"}
NoNext == [shape |-> "missing", dateFrom |-> None]
NextValues(lo) ==
  {[shape |-> s, dateFrom |-> None] : s \in MalformedShapes} \cup
  {[shape |-> "ok", dateFrom |-> t] : t \in lo..MaxTime}

Unbound == [status |-> "unbound", data |-> <<>>, next |-> NoNext]
FetchFailed == [status |-> "none", data |-> <<>>, next |-> NoNext]

LastTime(data, c) == IF data = <<>> THEN c ELSE data[Len(data)].sampleTime

\* the record sequences a request for date_from may be answered with: the
\* service returns data from date_from on ("Start date for data retrieval"),
\* in ascending order, and a continuation that does not go back (NextValues)
PageData(date_from, row_limit) ==
  {x \in AllData : /\ Len(x) <= Min(row_limit, MaxRecs)
                   /\ (x # <<>> => x[1].sampleTime >= date_from)}
Page(d, n) == [status |-> "page", data |-> d, next |-> n]

\* one request: the body of the response on status 200, None on any other
fetch_onc_realtime_data(status_200, d, n) ==
  IF status_200 THEN Page(d, n) ELSE FetchFailed

\* result['next']['parameters']['dateFrom']: the value, or the exception
DateFromOf(result) ==
  IF result.status # "page" THEN [exc |-> "TypeError", value |-> None]
  ELSE CASE result.next.shape = "missing" -> [exc |-> "KeyError", value |-> None]
         [] result.next.shape = "null" -> [exc |-> "TypeError", value |-> None]
         [] result.next.shape = "empty" -> [exc |-> "KeyError", value |-> None]
         [] result.next.shape = "no_dateFrom" -> [exc |-> "KeyError", value |-> None]
         [] result.next.shape = "non_mapping" -> [exc |-> "TypeError", value |-> None]
         [] result.next.shape = "null_dateFrom" -> [exc |-> "none", value |-> None]
         [] OTHER -> [exc |-> "none", value |-> result.next.dateFrom]

\* the try/except around the lookup: the new cursor
NextDateOf(result) ==
  IF DateFromOf(result).exc = "none" THEN DateFromOf(result).value ELSE None

\* ---- utils.py: parse_xt_json, a pure function of a decoded frame -------

\* bounds on the decoded buffers, in elements
MaxBuf == 3
MaxRaw == 4

\* a key that the mapping does not hold
KeyAbsent == -3
\* dtype '<f4': bytes per element
ItemSize == 4
\* the default of `number of channels`
ChannelsDefault == 2
\* file_name's default
FileNameDefault == "unknown.xt"
\* channel_points, channel -> number of external points; the default
\* {1: 2206, 2: 1561} scaled down to the buffer bounds
ChannelPointsDefault == <<2, 1>>

\* the outcome of one stage: a value, or the exception it raised
NoResult == [none |-> TRUE]
Ok(v) == [exc |-> "none", value |-> v]
Fail(name) == [exc |-> name, value |-> NoResult]

\* dict.get(key, default)
Get(v, default) == IF v = KeyAbsent THEN default ELSE v

\* np.frombuffer(b64decode(Data), dtype='<f4') of a payload of nbytes bytes;
\* the element at (0-based) position k is written k
frombuffer(nbytes) ==
  IF nbytes % ItemSize # 0
  THEN Fail("ValueError")
  ELSE Ok([i \in 1..(nbytes \div ItemSize) |-> i - 1])

\* np.arange(lo, hi)
arange(lo, hi) == [i \in 1..(hi - lo) |-> lo + i - 1]

\* a[lo:hi] for 0 <= lo <= hi: the bounds are clamped to the length
Slice(a, lo, hi) == SubSeq(a, Min(lo, Len(a)) + 1, Min(hi, Len(a)))

\* arrays that may have two dimensions: ndim and the elements, row by row
Array1(a) == [ndim |-> 1, v |-> a]
shape0(arr) == Len(arr.v)

\* a.reshape(rows, -1) of a one-dimensional a
reshape(a, rows) ==
  IF rows <= 0 \/ Len(a) % rows # 0
  THEN Fail("ValueError")
  ELSE LET cols == Len(a) \div rows
       IN Ok([ndim |-> 2,
              v |-> [i \in 1..rows |->
                       SubSeq(a, (i - 1) * cols + 1, i * cols)]])

\* lines 48-59, with a variant that defaults a missing dz
MetadataLenient(json_data, file_name, channel_points) ==
  LET channel == Get(json_data.forward_channel, 0) + 1
      dz == Get(json_data.dz, 1)
      fep == json_data.first_external_point
  IN IF fep = KeyAbsent \/ channel \notin DOMAIN channel_points
     THEN Fail("KeyError")
     ELSE Ok([channel |-> channel,
              dz |-> dz,
              first_external_point |-> fep,
              filename |-> file_name,
              datetime |-> Get(json_data.date_time, None),
              n_external_points |-> channel_points[channel],
              external_length |-> channel_points[channel] * dz,
              total_length |-> channel_points[channel] * dz + fep * dz])
Metadata(json_data, file_name, channel_points) ==
  LET channel == Get(json_data.forward_channel, 0) + 1
      dz == json_data.dz
      fep == json_data.first_external_point
  IN IF dz = KeyAbsent \/ fep = KeyAbsent
        \/ channel \notin DOMAIN channel_points
     THEN Fail("KeyError")
     ELSE Ok([channel |-> channel,
              dz |-> dz,
              first_external_point |-> fep,
              filename |-> file_name,
              datetime |-> Get(json_data.date_time, None),
              n_external_points |-> channel_points[channel],
              external_length |-> channel_points[channel] * dz,
              total_length |-> channel_points[channel] * dz + fep * dz])

\* lines 67-82: the result with temp_data and distance
Trimmed(metadata, temp_data, channel_points, trim) ==
  LET pt_from == metadata.first_external_point
      pt_to == pt_from + channel_points[metadata.channel]
  IN ("metadata" :> metadata)
     @@ ("temp_data" :> IF trim THEN Slice(temp_data, pt_from, pt_to)
                                ELSE temp_data)
     @@ ("distance" :>
           IF trim
           THEN [i \in 1..(pt_to - pt_from) |->
                   (arange(pt_from, pt_to)[i] - pt_from) * metadata.dz]
           ELSE [i \in 1..Len(temp_data) |->
                   arange(0, Len(temp_data))[i] * metadata.dz])

\* lines 85-95, with a variant that drops `if raw_data:`
IncludeRawUnguarded(res, include_raw) ==
  IF ~include_raw THEN res
  ELSE LET raw_data ==
             [k \in {k \in {"forward", "reverse"} :
                       (IF k = "forward" THEN "raw_fwd" ELSE "raw_rev")
                         \in DOMAIN res} |->
                res[IF k = "forward" THEN "raw_fwd" ELSE "raw_rev"]]
       IN res @@ ("raw_data" :> raw_data)
IncludeRaw(res, include_raw) ==
  IF ~include_raw THEN res
  ELSE LET raw_data ==
             [k \in {k \in {"forward", "reverse"} :
                       (IF k = "forward" THEN "raw_fwd" ELSE "raw_rev")
                         \in DOMAIN res} |->
                res[IF k = "forward" THEN "raw_fwd" ELSE "raw_rev"]]
       IN IF DOMAIN raw_data # {}
          THEN res @@ ("raw_data" :> raw_data)
          ELSE res

\* lines 98-108
RawFwd(res, json_data, temp_data) ==
  IF json_data.fwd_bytes = KeyAbsent THEN Ok(res)
  ELSE LET raw_fwd == frombuffer(json_data.fwd_bytes)
       IN IF raw_fwd.exc # "none" THEN raw_fwd
          ELSE IF Len(raw_fwd.value) > Len(temp_data)
          THEN LET channels == Get(json_data.number_of_channels,
                                   ChannelsDefault)
                   shaped == reshape(raw_fwd.value, channels)
               IN IF shaped.exc # "none" THEN shaped
                  ELSE Ok(res @@ ("raw_fwd" :> shaped.value))
          ELSE Ok(res @@ ("raw_fwd" :> Array1(raw_fwd.value)))

\* lines 111-119
RawRev(res, json_data, temp_data) ==
  IF json_data.rev_bytes = KeyAbsent THEN Ok(res)
  ELSE LET raw_rev == frombuffer(json_data.rev_bytes)
       IN IF raw_rev.exc # "none" THEN raw_rev
          ELSE IF "raw_fwd" \in DOMAIN res
                  /\ Len(raw_rev.value) > Len(temp_data)
          THEN LET shaped == reshape(raw_rev.value, shape0(res["raw_fwd"]))
               IN IF shaped.exc # "none" THEN shaped
                  ELSE Ok(res @@ ("raw_rev" :> shaped.value))
          ELSE Ok(res @@ ("raw_rev" :> Array1(raw_rev.value)))

parse_xt_json(json_data, file_name, channel_points, include_raw, trim) ==
  LET metadata == Metadata(json_data, file_name, channel_points)
      temp_data == frombuffer(json_data.temp_bytes)
  IN IF metadata.exc # "none" THEN metadata
     ELSE IF temp_data.exc # "none" THEN temp_data
     ELSE LET res == IncludeRaw(Trimmed(metadata.value, temp_data.value,
                                        channel_points, trim),
                                include_raw)
              fwd == RawFwd(res, json_data, temp_data.value)
          IN IF fwd.exc # "none" THEN fwd
             ELSE RawRev(fwd.value, json_data, temp_data.value)

\* the frames and arguments tried
BufBytes(max) == {ItemSize * k : k \in 0..max}
XtFrames ==
  [forward_channel : {KeyAbsent} \cup 0..2,
   dz : {KeyAbsent, 1, 2},
   first_external_point : {KeyAbsent, 0, 1},
   date_time : {KeyAbsent},
   temp_bytes : BufBytes(MaxBuf) \cup {ItemSize \div 2},
   fwd_bytes : {KeyAbsent} \cup BufBytes(MaxRaw),
   rev_bytes : {KeyAbsent} \cup BufBytes(MaxRaw),
   number_of_channels : {KeyAbsent, 1, 2}]
NoFrame ==
  [forward_channel |-> KeyAbsent, dz |-> KeyAbsent,
   first_external_point |-> KeyAbsent, date_time |-> KeyAbsent,
   temp_bytes |-> 0, fwd_bytes |-> KeyAbsent, rev_bytes |-> KeyAbsent,
   number_of_channels |-> KeyAbsent]
NoCall == [json_data |-> NoFrame, include_raw |-> FALSE, trim |-> FALSE,
           called |-> FALSE]
Pending == [exc |-> "pending", value |-> NoResult]

\* ---- the stream -------------------------------------------------------
VARIABLES
  next_date,    \* self.next_date: the cursor, None when unknown
  last_date,    \* self.last_date: Unset until a record has been scanned
  json_data,    \* self.json_data: buffered payloads, oldest first
  json_src,     \* for each buffered payload, the record it was parsed from
  found_data,   \* the local of _fetch_next
  result,       \* the local of _fetch_next: the latest response of this call
  pc,           \* "idle": no call in progress; "fetching": inside _fetch_next
  depth,        \* nested __next__ frames of the call in progress
  last_fetch,   \* the latest request sent, the one before, and what followed
  delivered,    \* the latest payload returned by __next__ and its record
  outcome,      \* how the latest __next__ call ended, "running" until it does
  last_scanned, \* sampleTime of the latest record the for loop was given
  parse_args,   \* the arguments of the parse_xt_json call under study
  parse_ret     \* what that call returned or raised, Pending before it

vars == <<next_date, last_date, json_data, json_src, found_data, result, pc,
          depth, last_fetch, delivered, outcome, last_scanned,
          parse_args, parse_ret>>

NoItem == [sampleTime |-> None, rawData |-> <<>>]
NoPayload == [Cmd |-> "", Resp |-> ""]

StartDates == {None} \cup Times

Init ==
  /\ next_date \in StartDates
  /\ last_date = Unset
  /\ json_data = <<>>
  /\ json_src = <<>>
  /\ found_data = FALSE
  /\ result = Unbound
  /\ pc = "idle"
  /\ depth = 0
  /\ last_fetch = [kind |-> "none", date_from |-> None,
                  prev_date_from |-> None, row_limit |-> 0,
                  no_next |-> FALSE, slept |-> FALSE]
  /\ delivered = [payload |-> NoPayload, src |-> NoItem,
                  prev_time |-> None]
  /\ outcome = "none"
  /\ last_scanned = Unset
  /\ parse_args = NoCall
  /\ parse_ret = Pending

\* the request parameters of one fetch, with what came back
Fetched(kind, date_from, row_limit, r, slept) ==
  [kind |-> kind, date_from |-> date_from,
   prev_date_from |-> last_fetch.date_from, row_limit |-> row_limit,
   no_next |-> r.status = "page" /\ r.next.shape \in AbsentShapes,
   slept |-> slept]

\* json_data.pop(0), and the pop() that takes the newest
PopIndexNewest(buf) == Len(buf)
PopIndex(buf) == 1
Remove(buf, i) == SubSeq(buf, 1, i - 1) \o SubSeq(buf, i + 1, Len(buf))

\* one pass of the for loop body over a record; st carries the fields the
\* body assigns and the exception that ended the loop, if any
ScanItemLastDateOnMatch(st, item, r) ==
  IF st.exc # "none" THEN st
  ELSE IF IsCommandFrame(item.rawData) /\ ~JsonValid(item.rawData)
  THEN [st EXCEPT !.found_data = TRUE, !.exc = "JSONDecodeError",
                  !.last_scanned = item.sampleTime]
  ELSE [next_date |-> NextDateOf(r),
        last_date |-> IF IsCommandFrame(item.rawData) THEN item.sampleTime
                      ELSE st.last_date,
        json_data |-> IF IsCommandFrame(item.rawData)
                      THEN Append(st.json_data, JsonLoads(item.rawData))
                      ELSE st.json_data,
        json_src |-> IF IsCommandFrame(item.rawData)
                     THEN Append(st.json_src, item) ELSE st.json_src,
        found_data |-> st.found_data \/ IsCommandFrame(item.rawData),
        exc |-> "none", last_scanned |-> item.sampleTime]
ScanItem(st, item, r) ==
  IF st.exc # "none" THEN st
  ELSE IF IsCommandFrame(item.rawData) /\ ~JsonValid(item.rawData)
  THEN [st EXCEPT !.found_data = TRUE, !.exc = "JSONDecodeError",
                  !.last_scanned = item.sampleTime]
  ELSE [next_date |-> NextDateOf(r),
        last_date |-> item.sampleTime,
        json_data |-> IF IsCommandFrame(item.rawData)
                      THEN Append(st.json_data, JsonLoads(item.rawData))
                      ELSE st.json_data,
        json_src |-> IF IsCommandFrame(item.rawData)
                     THEN Append(st.json_src, item) ELSE st.json_src,
        found_data |-> st.found_data \/ IsCommandFrame(item.rawData),
        exc |-> "none", last_scanned |-> item.sampleTime]

\* for item in result['data']: ...
RECURSIVE Scan(_, _, _)
Scan(st, data, r) ==
  IF data = <<>> THEN st
  ELSE Scan(ScanItem(st, Head(data), r), Tail(data), r)

ScanStart ==
  [next_date |-> next_date, last_date |-> last_date, json_data |-> json_data,
   json_src |-> json_src, found_data |-> found_data, exc |-> "none",
   last_scanned |-> last_scanned]

\* an exception leaves __next__: every frame of the call is unwound
Raise(name) ==
  /\ pc' = "idle"
  /\ depth' = 0
  /\ outcome' = name

\* __next__ with a non-empty buffer: return self.json_data.pop(0)
Return(buf, src) ==
  /\ json_data' = Remove(buf, PopIndex(buf))
  /\ json_src' = Remove(src, PopIndex(buf))
  /\ delivered' = [payload |-> buf[PopIndex(buf)], src |-> src[PopIndex(buf)],
                   prev_time |-> delivered.src.sampleTime]
  /\ pc' = "idle"
  /\ depth' = 0
  /\ outcome' = "returned"

\* `if len(self.json_data)`, and a test that refills one payload early
BufferHasSpare(buf) == Len(buf) > 1
BufferHasData(buf) == Len(buf) > 0

\* a caller invokes __next__ on the stream
NextCall ==
  /\ pc = "idle"
  /\ IF BufferHasData(json_data)
     THEN /\ Return(json_data, json_src)
          /\ UNCHANGED found_data
     ELSE /\ pc' = "fetching"
          /\ depth' = 1
          /\ found_data' = FALSE
          /\ outcome' = "running"
          /\ UNCHANGED <<json_data, json_src, delivered>>
  /\ result' = Unbound
  /\ UNCHANGED <<next_date, last_date, last_fetch, last_scanned>>
  /\ UNCHANGED <<parse_args, parse_ret>>

\* the probe loop's handling of a response: sleep(5) in the except branch
OnProbe(r) ==
  /\ result' = r
  /\ next_date' = NextDateOf(r)
  /\ last_fetch' = Fetched("probe", last_date, ProbeRowLimit, r,
                           DateFromOf(r).exc # "none")
  /\ UNCHANGED <<pc, depth, outcome>>

\* one turn of `while self.next_date is None`
ProbeFetch ==
  /\ pc = "fetching"
  /\ next_date = None
  /\ IF last_date = Unset
     THEN /\ Raise("AttributeError")
          /\ UNCHANGED <<next_date, result, last_fetch>>
     ELSE \/ OnProbe(fetch_onc_realtime_data(FALSE, <<>>, NoNext))
          \/ \E d \in PageData(last_date, ProbeRowLimit) :
               \E n \in NextValues(LastTime(d, last_date)) :
                 OnProbe(fetch_onc_realtime_data(TRUE, d, n))
  /\ UNCHANGED <<last_date, json_data, json_src, found_data, delivered,
                 last_scanned, parse_args, parse_ret>>

\* _fetch_next has returned into `return self.__next__()`
AfterRefill(st) ==
  IF depth + 1 > MaxDepth
  THEN /\ Raise("RecursionError")
       /\ found_data' = st.found_data
       /\ json_data' = st.json_data
       /\ json_src' = st.json_src
       /\ UNCHANGED delivered
  ELSE IF BufferHasData(st.json_data)
  THEN /\ Return(st.json_data, st.json_src)
       /\ found_data' = st.found_data
  ELSE /\ pc' = "fetching"
       /\ depth' = depth + 1
       /\ found_data' = FALSE
       /\ json_data' = st.json_data
       /\ json_src' = st.json_src
       /\ UNCHANGED <<delivered, outcome>>

\* the paging loop's handling of a response
OnPage(r) ==
  /\ result' = r
  /\ last_fetch' = Fetched("page", next_date, RowLimitDefault, r, FALSE)
  /\ IF r.status # "page"
     THEN \* len(result["data"]) on None
          /\ Raise("TypeError")
          /\ UNCHANGED <<next_date, last_date, json_data, json_src,
                         found_data, delivered, last_scanned>>
     ELSE \E st \in {Scan(ScanStart, r.data, r)} :
          /\ next_date' = st.next_date
          /\ last_date' = st.last_date
          /\ last_scanned' = st.last_scanned
          /\ IF st.exc # "none"
             THEN /\ Raise(st.exc)
                  /\ found_data' = st.found_data
                  /\ json_data' = st.json_data
                  /\ json_src' = st.json_src
                  /\ UNCHANGED delivered
             ELSE IF ~st.found_data /\ st.next_date # None
             THEN /\ found_data' = st.found_data
                  /\ json_data' = st.json_data
                  /\ json_src' = st.json_src
                  /\ UNCHANGED <<pc, depth, delivered, outcome>>
             ELSE AfterRefill(st)

\* one turn of `while not found_data and self.next_date is not None`
PageFetch ==
  /\ pc = "fetching"
  /\ next_date # None
  /\ ~found_data
  /\ \/ OnPage(fetch_onc_realtime_data(FALSE, <<>>, NoNext))
     \/ \E d \in PageData(next_date, RowLimitDefault) :
          \E n \in NextValues(LastTime(d, next_date)) :
            OnPage(fetch_onc_realtime_data(TRUE, d, n))
  /\ UNCHANGED <<parse_args, parse_ret>>

Next == NextCall \/ ProbeFetch \/ PageFetch

Spec == Init /\ [][Next]_vars

\* ---- parse_xt_json applied to one frame ---------------------------------
\* the stream is left as constructed; one call is drawn and then made
InitParse ==
  /\ next_date = None
  /\ last_date = Unset
  /\ json_data = <<>>
  /\ json_src = <<>>
  /\ found_data = FALSE
  /\ result = Unbound
  /\ pc = "idle"
  /\ depth = 0
  /\ last_fetch = [kind |-> "none", date_from |-> None,
                  prev_date_from |-> None, row_limit |-> 0,
                  no_next |-> FALSE, slept |-> FALSE]
  /\ delivered = [payload |-> NoPayload, src |-> NoItem,
                  prev_time |-> None]
  /\ outcome = "none"
  /\ last_scanned = Unset
  /\ parse_args \in [json_data : XtFrames, include_raw : BOOLEAN,
                     trim : BOOLEAN, called : {TRUE}]
  /\ parse_ret = Pending

ParseCall ==
  /\ parse_args.called
  /\ parse_ret = Pending
  /\ parse_ret' = parse_xt_json(parse_args.json_data, FileNameDefault,
                                ChannelPointsDefault,
                                parse_args.include_raw, parse_args.trim)
  /\ UNCHANGED <<next_date, last_date, json_data, json_src, found_data,
                 result, pc, depth, last_fetch, delivered, outcome,
                 last_scanned, parse_args>>

NextParse == ParseCall

SpecParse == InitParse /\ [][NextParse]_vars

\* ---- vocabulary of the properties --------------------------------------
\* a step that sends a request (every step taken inside _fetch_next does,
\* except the probe that dies reading an unset last_date)
FetchStep == pc = "fetching" /\ outcome' # "AttributeError"
\* a step in which __next__ hands a payload to its caller
DeliveryStep == outcome' = "returned"

HasPrefix(item) == startswith(item.rawData, CommandFramePrefix)
Frames(data) == SelectSeq(data, HasPrefix)
ClaimedMalformedShapes ==
  {"missing", "null", "empty", "no_dateFrom", "non_mapping"}

\* C1: payloads are delivered in non-decreasing sampleTime order: the record
\* of each delivered payload is not earlier than the record of the payload
\* delivered before it.
C1_DeliveryOrder ==
  delivered.prev_time # None =>
    delivered.src.sampleTime >= delivered.prev_time
\* two deliveries, the second from a strictly later record
C1_Witness ==
  /\ outcome = "returned"
  /\ delivered.prev_time # None
  /\ delivered.src.sampleTime > delivered.prev_time

\* C2: a failed fetch (None) is never surfaced as an error, in Bootstrapping
\* or in Paging: the call keeps running and the cursor is what it was.
C2_FailedFetchNotSurfaced ==
  result.status = "none" =>
    /\ outcome = "running"
    /\ next_date = IF last_fetch.kind = "page" THEN last_fetch.date_from
                   ELSE None

\* C3: a Paging fetch that returns a page without `next` (whatever the page
\* holds, records or none) leaves the cursor unknown, and the fetch after it
\* is a probe: row_limit 1, dateFrom the last seen sampleTime.
C3_AbsentNextDegrades ==
  [][FetchStep =>
       /\ (/\ last_fetch'.kind = "page"
           /\ result'.status = "page"
           /\ result'.next.shape \in AbsentShapes) => next_date' = None
       /\ (last_fetch.kind = "page" /\ last_fetch.no_next) =>
            /\ last_fetch'.kind = "probe"
            /\ last_fetch'.row_limit = ProbeRowLimit
            /\ last_fetch'.date_from = last_date]_vars

\* C4: a record with the prefix that is not valid JSON does not stall
\* pagination: when the scan meets it, the cursor has moved on to the page's
\* continuation.
C4_MalformedFrameAdvances ==
  outcome = "JSONDecodeError" => next_date = NextDateOf(result)

\* C5: the dateFrom of each remote fetch, probe or page, is not earlier than
\* the dateFrom of the fetch before it.
C5_FetchKeyMonotone ==
  last_fetch.prev_date_from # None =>
    last_fetch.date_from >= last_fetch.prev_date_from
\* a probe keyed on a record later than the cursor of the page fetch before
C5_Witness ==
  /\ last_fetch.kind = "probe"
  /\ last_fetch.prev_date_from # None
  /\ last_fetch.date_from > last_fetch.prev_date_from

\* C6: a page with a malformed `next` of any shape raises nothing from the
\* lookup and leaves the cursor unknown.
C6_MalformedNextDegrades ==
  (result.status = "page" /\ result.next.shape \in ClaimedMalformedShapes) =>
    /\ outcome \notin {"KeyError", "TypeError"}
    /\ next_date = None

\* C7: the payloads handed out are exactly the prefix records of the pages
\* fetched, in page order: a page fetch leaves buffer and delivery equal to
\* the old buffer followed by every prefix record of the page, and each
\* delivery takes the oldest.
C7_FifoEveryFrame ==
  [][/\ (FetchStep /\ last_fetch'.kind = "page" /\ result'.status = "page") =>
          (IF DeliveryStep THEN <<delivered'.src>> \o json_src' ELSE json_src')
            = json_src \o Frames(result'.data)
     /\ (DeliveryStep /\ pc = "idle") =>
          <<delivered'.src>> \o json_src' = json_src]_vars

\* C8: while the responses are successful pages, a call returns a payload or
\* is still fetching; it never ends any other way.
C8_NoTerminalState ==
  (last_fetch.kind # "none" /\ result.status # "none") =>
    outcome \in {"none", "running", "returned"}

\* C9: with the cursor unknown the stream sends only single-row probes keyed
\* on last_date and delivers nothing; a probe without a continuation is
\* followed by the backoff; a probe with one sets the cursor, and the fetch
\* after it is a page fetch at that cursor.
C9_Bootstrapping ==
  [][FetchStep =>
       /\ next_date = None =>
            /\ last_fetch'.kind = "probe"
            /\ last_fetch'.row_limit = ProbeRowLimit
            /\ last_fetch'.date_from = last_date
            /\ ~DeliveryStep
            /\ json_data' = json_data
            /\ (next_date' = None => last_fetch'.slept)
            /\ (result'.status = "page" /\ result'.next.shape = "ok") =>
                 next_date' = result'.next.dateFrom
       /\ (last_fetch.kind = "probe" /\ next_date # None) =>
            /\ last_fetch'.kind = "page"
            /\ last_fetch'.date_from = next_date]_vars

\* C10: only records that start with the prefix reach the buffer: every
\* buffered or delivered payload is the parse of such a record, and a page
\* adds no more payloads than it has prefix records.
C10_OnlyFramesBuffered ==
  /\ \A i \in 1..Len(json_src) :
       /\ HasPrefix(json_src[i])
       /\ json_data[i] = JsonLoads(json_src[i].rawData)
  /\ Len(json_data) = Len(json_src)
  /\ delivered.src # NoItem =>
       /\ HasPrefix(delivered.src)
       /\ delivered.payload = JsonLoads(delivered.src.rawData)
       /\ delivered.payload.Cmd = "getData"
  /\ (last_fetch.kind = "page" /\ result.status = "page") =>
       Len(json_data) <= Len(Frames(result.data))
\* a page with a record of another command after a frame: the frame is
\* delivered and the buffer is empty
C10_Witness ==
  /\ outcome = "returned"
  /\ result.status = "page"
  /\ Len(result.data) = 2
  /\ result.data[1] = delivered.src
  /\ ~HasPrefix(result.data[2])
  /\ json_data = <<>>

\* a step in which _fetch_next returns to __next__
RefillReturnStep ==
  /\ pc = "fetching"
  /\ outcome' \in {"returned", "RecursionError"} \/ depth' > depth

\* C15: a refill returns only once a matching payload was buffered in that
\* call or the cursor became unknown; and a call whose fetches succeed with
\* advancing continuations up to a page with a matching record ends by
\* returning a payload (recursion exhausted by earlier degraded refills set
\* aside).
C15_RefillUntilFound ==
  /\ [][RefillReturnStep =>
          \/ next_date' = None
          \/ /\ Frames(result'.data) # <<>>
             /\ DeliveryStep \/ json_data' # <<>>]_vars
  /\ [](( /\ pc = "idle"
          /\ last_fetch.kind = "page"
          /\ result.status = "page"
          /\ result.next.shape = "ok"
          /\ Frames(result.data) # <<>>
          /\ outcome # "RecursionError") => outcome = "returned")

\* C16: after a Paging fetch the cursor is the page's continuation, unknown
\* if it has none, however many records the page holds, zero included.
C16_CursorIsPageContinuation ==
  (last_fetch.kind = "page" /\ result.status = "page") =>
    next_date = NextDateOf(result)

\* C17: a request is sent only while the buffer is empty, and __next__ on a
\* non-empty buffer sends none, takes exactly the oldest payload and leaves
\* cursor and last_date alone.
C17_FetchOnlyWhenEmpty ==
  [][/\ FetchStep => json_data = <<>>
     /\ (pc = "idle" /\ json_data # <<>>) =>
          /\ pc' = "idle"
          /\ last_fetch' = last_fetch
          /\ json_data' = Tail(json_data)
          /\ delivered'.payload = Head(json_data)
          /\ delivered'.src = Head(json_src)
          /\ next_date' = next_date
          /\ last_date' = last_date]_vars
\* a payload left in the buffer by a page fetch has been handed out by a
\* later call that fetched nothing
C17_Witness ==
  /\ outcome = "returned"
  /\ result.status = "unbound"
  /\ last_fetch.kind = "page"
  /\ json_data = <<>>

\* C18: once a fetch has been made (the start cursor was concrete), every
\* probe finds last_date set, equal to the sampleTime of the record scanned
\* last; with an unknown start cursor the first probe finds it unset.
C18_ProbeReadsLastScanned ==
  [][(pc = "fetching" /\ next_date = None) =>
       IF last_fetch.kind # "none"
       THEN /\ outcome' # "AttributeError"
            /\ last_date # Unset
            /\ last_date = last_scanned
            /\ last_fetch'.date_from = last_date
       ELSE /\ last_date = Unset
            /\ outcome' = "AttributeError"]_vars

\* C19: the nesting of __next__ within one call does not grow with the
\* refills that return with an empty buffer, and never exhausts the stack.
C19_BoundedNesting ==
  /\ [][(pc = "fetching" /\ pc' = "fetching") => depth' = depth]_vars
  /\ [](outcome # "RecursionError")

\* ---- parse_xt_json: vocabulary -------------------------------------------
Decoded == parse_ret.exc = "none"
Frame == parse_args.json_data
\* the decoded input buffers of the call
TempBuffer == frombuffer(Frame.temp_bytes).value
RawBuffer(key) ==
  frombuffer(IF key = "raw_fwd" THEN Frame.fwd_bytes
                                ELSE Frame.rev_bytes).value
\* the same call with other arguments
Reparse(frame, include_raw) ==
  parse_xt_json(frame, FileNameDefault, ChannelPointsDefault, include_raw,
                parse_args.trim)

\* C11: every frame decoded without error has temp_data and distance of the
\* same length, whatever the buffer length, and with trim distance starts
\* at 0.
C11_SameLength ==
  Decoded =>
    /\ Len(parse_ret.value["temp_data"]) = Len(parse_ret.value["distance"])
    /\ parse_args.trim => parse_ret.value["distance"][1] = 0

\* C12: with trim, temp_data has exactly channel_points[channel] elements,
\* those of the buffer from first external point on; without trim it is the
\* whole buffer and distance[i] = i * dz.
C12_TrimExtent ==
  Decoded =>
    LET md == parse_ret.value["metadata"]
        temp_data == parse_ret.value["temp_data"]
        distance == parse_ret.value["distance"]
        n == ChannelPointsDefault[md.channel]
    IN IF parse_args.trim
       THEN /\ Len(temp_data) = n
            /\ \A i \in 1..n :
                 temp_data[i] = TempBuffer[md.first_external_point + i]
       ELSE /\ temp_data = TempBuffer
            /\ Len(distance) = Len(TempBuffer)
            /\ \A i \in 1..Len(distance) : distance[i] = (i - 1) * md.dz

\* C13: a two-dimensional raw array, forward or reverse, has as many rows as
\* the frame's `number of channels` (2 by default), and its element (i, j)
\* is element i * cols + j of the buffer.
C13_RawRows ==
  Decoded =>
    \A key \in {"raw_fwd", "raw_rev"} \cap DOMAIN parse_ret.value :
      LET arr == parse_ret.value[key]
          cols == Len(arr.v[1])
      IN arr.ndim = 2 =>
           /\ shape0(arr) = Get(Frame.number_of_channels, ChannelsDefault)
           /\ \A i \in 1..shape0(arr) : \A j \in 1..cols :
                arr.v[i][j] = RawBuffer(key)[(i - 1) * cols + j]

\* C14: a frame without dz or without first external point raises KeyError
\* and yields nothing; a frame without forward channel is parsed as the
\* frame with forward channel 0, channel 1, and the channel reported is the
\* forward channel plus one.
C14_MissingFields ==
  parse_ret.exc # "pending" =>
    /\ (Frame.dz = KeyAbsent \/ Frame.first_external_point = KeyAbsent) =>
         parse_ret = Fail("KeyError")
    /\ Frame.forward_channel = KeyAbsent =>
         /\ parse_ret = Reparse([Frame EXCEPT !.forward_channel = 0],
                                parse_args.include_raw)
         /\ (Frame.dz # KeyAbsent /\ Frame.first_external_point # KeyAbsent)
              => parse_ret.exc # "KeyError"
         /\ Decoded => parse_ret.value["metadata"].channel = 1
    /\ Decoded => parse_ret.value["metadata"].channel
                    = Get(Frame.forward_channel, 0) + 1
\* a frame that lacks only dz has been rejected
C14_Witness ==
  /\ parse_ret.exc = "KeyError"
  /\ Frame.dz = KeyAbsent
  /\ Frame.first_external_point # KeyAbsent
  /\ Frame.forward_channel \in {KeyAbsent, 0}

====
